---- MODULE Spec2Model ----
(***************************************************************************)
(* A model of the TF-IDF search engine of main.py: class Document and     *)
(* class TFIDF_Engine (read_files, create_df_table, create_term_vector,   *)
(* create_term_vectors, calculate_cosine_sim, get_results, query_loop,    *)
(* tokenize).                                                             *)
(*                                                                         *)
(* Representation.                                                         *)
(*   - A str is a sequence of one-character strings: "a B" is             *)
(*     <<"a", " ", "B">>.  Tokens are strs as well.                        *)
(*   - A dict is the sequence of its items [k |-> key, v |-> value] in     *)
(*     insertion order (Python dicts iterate in insertion order, and the   *)
(*     vocabulary order is the key order of df_table).                     *)
(*   - A float is a fixed-point integer with Scale units per 1.0.          *)
(*     math.log is a table of round(Scale * ln n); a product of two        *)
(*     floats that is squared or summed later is kept at Scale*Scale so    *)
(*     that a non-zero float never becomes zero.                           *)
(*   - A method is an operator from the engine record `self` (and its      *)
(*     arguments) to the engine after the call, the value returned and     *)
(*     the exception raised ("none" when none is).                         *)
(***************************************************************************)
EXTENDS Integers, Sequences, FiniteSets, TLC

\* ------------------------------------------------------------------ bounds
MaxTextLen == 4    \* longest text handed to tokenize in SpecTokenize
MaxFiles == 2      \* most files in the corpus directory
MaxReads == 2      \* most calls of read_files in one run
MaxCalls == 4      \* most method calls in one run

\* ------------------------------------------------------- program constants
TopK == 5          \* query_loop prints range(5) results
PreviewLen == 500  \* Document.__str__ shows text[:500]
Scale == 100       \* fixed-point units per 1.0

Min(a, b) == IF a <= b THEN a ELSE b

\* ------------------------------------------------------------- characters
LowerLetters ==
    <<"a","b","c","d","e","f","g","h","i","j","k","l","m",
      "n","o","p","q","r","s","t","u","v","w","x","y","z">>

UpperLetters ==
    <<"A","B","C","D","E","F","G","H","I","J","K","L","M",
      "N","O","P","Q","R","S","T","U","V","W","X","Y","Z">>

Digits == {"0","1","2","3","4","5","6","7","8","9"}

Range(s) == {s[i] : i \in 1..Len(s)}

\* The characters c with c.strip() == "" that the model's texts can hold.
Whitespace == {" ", "\t", "\n", "\r", "\f"}

\* re.match("[a-zA-Z0-9]", c) or c == "'" or c == "_" or c == "-"
IsWordChar(c) ==
    \/ c \in Range(LowerLetters) \cup Range(UpperLetters) \cup Digits
    \/ c = "'"
    \/ c = "_"
    \/ c = "-"

\* c.strip() == ""
IsSpace(c) == c \in Whitespace

\* str.lower() of one character
LowerChar(c) ==
    IF c \in Range(UpperLetters)
    THEN LowerLetters[CHOOSE i \in 1..Len(UpperLetters) : UpperLetters[i] = c]
    ELSE c

\* token.lower()
Lower(token) == [i \in 1..Len(token) |-> LowerChar(token[i])]

\* ------------------------------------------------------------------ dicts
DictHas(d, key) == \E i \in 1..Len(d) : d[i].k = key

DictGet(d, key) == d[CHOOSE i \in 1..Len(d) : d[i].k = key].v

DictKeys(d) == [i \in 1..Len(d) |-> d[i].k]

\* if key in d: d[key] += 1  else: d[key] = 1
DictIncr(d, key) ==
    IF DictHas(d, key)
    THEN [i \in 1..Len(d) |->
            IF d[i].k = key THEN [k |-> key, v |-> d[i].v + 1] ELSE d[i]]
    ELSE Append(d, [k |-> key, v |-> 1])

\* --------------------------------------------------------------- tokenize
\* The scan of tokenize with the final flush left out: a pending run at the
\* end of the text is dropped.
RECURSIVE ScanNoFlush(_, _, _, _)
ScanNoFlush(text, i, token, tokens) ==
    IF i > Len(text)
    THEN tokens
    ELSE LET c == text[i] IN
         IF IsWordChar(c)
         THEN ScanNoFlush(text, i + 1, Append(token, c), tokens)
         ELSE LET flushed == IF token # <<>>
                             THEN Append(tokens, Lower(token))
                             ELSE tokens
                  emitted == IF ~IsSpace(c)
                             THEN Append(flushed, <<c>>)
                             ELSE flushed
              IN ScanNoFlush(text, i + 1, <<>>, emitted)

\* The character loop of tokenize from position i on, with the run in
\* progress `token` and the list `tokens` emitted so far, and the flush
\* after the loop.
RECURSIVE ScanTokens(_, _, _, _)
ScanTokens(text, i, token, tokens) ==
    IF i > Len(text)
    THEN IF token # <<>> THEN Append(tokens, Lower(token)) ELSE tokens
    ELSE LET c == text[i] IN
         IF IsWordChar(c)
         THEN ScanTokens(text, i + 1, Append(token, c), tokens)
         ELSE LET flushed == IF token # <<>>
                             THEN Append(tokens, Lower(token))
                             ELSE tokens
                  emitted == IF ~IsSpace(c)
                             THEN Append(flushed, <<c>>)
                             ELSE flushed
              IN ScanTokens(text, i + 1, <<>>, emitted)

\* for t in tokens: count t in d_tokens
RECURSIVE CountTokens(_, _, _)
CountTokens(tokens, i, d_tokens) ==
    IF i > Len(tokens)
    THEN d_tokens
    ELSE CountTokens(tokens, i + 1, DictIncr(d_tokens, tokens[i]))

tokenize(text) == CountTokens(ScanTokens(text, 1, <<>>, <<>>), 1, <<>>)

\* ------------------------------------------------------------- arithmetic
\* round(Scale * ln n) for n = 1..48
LnTable ==
    <<0, 69, 110, 139, 161, 179, 195, 208, 220, 230, 240, 248, 256, 264, 271,
      277, 283, 289, 294, 300, 304, 309, 314, 318, 322, 326, 330, 333, 337,
      340, 343, 347, 350, 353, 356, 358, 361, 364, 366, 369, 371, 374, 376,
      378, 381, 383, 385, 387>>

\* tf = 1 + math.log(d.terms[term])
Tf(count) == Scale + LnTable[count]

\* idf = math.log(self.N / self.df_table[term]), for n >= 1 and df >= 1:
\* ln(n / df) = ln n - ln df.
Idf(n, df) == LnTable[n] - LnTable[df]

\* What evaluating math.log(n / df) raises.
IdfError(n, df) ==
    IF df = 0 THEN "ZeroDivisionError"
    ELSE IF n <= 0 THEN "ValueError"
    ELSE "none"

\* tf * idf, at Scale units per 1.0
Weight(count, n, df) == (Tf(count) * Idf(n, df)) \div Scale

\* sum(a * b for a, b in zip(v1, v2)), at Scale * Scale units per 1.0
RECURSIVE DotFrom(_, _, _)
DotFrom(v1, v2, i) ==
    IF i > Min(Len(v1), Len(v2))
    THEN 0
    ELSE v1[i] * v2[i] + DotFrom(v1, v2, i + 1)

Dot(v1, v2) == DotFrom(v1, v2, 1)

RECURSIVE SqrtSearch(_, _, _)
SqrtSearch(n, lo, hi) ==
    IF lo >= hi
    THEN lo
    ELSE LET mid == (lo + hi + 1) \div 2 IN
         IF mid * mid <= n
         THEN SqrtSearch(n, mid, hi)
         ELSE SqrtSearch(n, lo, mid - 1)

\* math.sqrt of a value at Scale * Scale units, at Scale units: the integer
\* square root.  It is 0 only for 0, as math.sqrt is.
Sqrt(n) == SqrtSearch(n, 0, Min(n, 46340))

\* a / b for a and b at the same units, at Scale units per 1.0
Divide(a, b) ==
    IF b = 0
    THEN [val |-> 0, err |-> "ZeroDivisionError"]
    ELSE [val |-> (a * Scale) \div b, err |-> "none"]

\* ---------------------------------------------------------------- Document
\* Document.__init__
NewDocument == [text |-> <<>>, terms |-> <<>>, term_vector |-> <<>>]

\* Document.__str__
DocStr(d) == SubSeq(d.text, 1, Min(PreviewLen, Len(d.text)))

\* ------------------------------------------------------------ TFIDF_Engine
\* TFIDF_Engine.__init__ (corpus_location is the directory read_files is
\* given)
NewEngine ==
    [documents |-> <<>>, N |-> 0, df_table |-> <<>>, term_vector_words |-> <<>>]

StartsWith(s, prefix) ==
    Len(s) >= Len(prefix) /\ SubSeq(s, 1, Len(prefix)) = prefix

EndsWith(s, suffix) ==
    /\ Len(s) >= Len(suffix)
    /\ SubSeq(s, Len(s) - Len(suffix) + 1, Len(s)) = suffix

\* not file.startswith('.') and file.endswith('.txt')
KeepFile(file) ==
    /\ ~StartsWith(file.name, <<".">>)
    /\ EndsWith(file.name, <<".", "t", "x", "t">>)

\* The loop of read_files over the filtered files: a file that cannot be
\* opened or decoded raises in the inner try and is skipped.
RECURSIVE ReadLoop(_, _, _)
ReadLoop(files, i, documents) ==
    IF i > Len(files)
    THEN documents
    ELSE IF files[i].readable
         THEN ReadLoop(files, i + 1,
                       Append(documents,
                              [text |-> files[i].text,
                               terms |-> tokenize(files[i].text),
                               term_vector |-> <<>>]))
         ELSE ReadLoop(files, i + 1, documents)

\* read_files on the directory dir: when os.walk yields nothing (no such
\* directory) next() raises, the outer except prints and nothing is changed.
read_files(self, dir) ==
    IF ~dir.exists
    THEN self
    ELSE LET files == SelectSeq(dir.files, KeepFile)
             docs == ReadLoop(files, 1, self.documents)
         IN [self EXCEPT !.documents = docs, !.N = Len(docs)]

\* for term in doc.terms: count it in df_table
RECURSIVE DfTerms(_, _, _)
DfTerms(terms, i, df_table) ==
    IF i > Len(terms)
    THEN df_table
    ELSE DfTerms(terms, i + 1, DictIncr(df_table, terms[i].k))

\* for doc in self.documents
RECURSIVE DfDocs(_, _, _)
DfDocs(documents, i, df_table) ==
    IF i > Len(documents)
    THEN df_table
    ELSE DfDocs(documents, i + 1, DfTerms(documents[i].terms, 1, df_table))

create_df_table(self) ==
    LET df == DfDocs(self.documents, 1, self.df_table)
    IN [self EXCEPT !.df_table = df, !.term_vector_words = DictKeys(df)]

\* The loop of create_term_vector from vocabulary position i on; vec is
\* d.term_vector so far.  An exception leaves the vector as built so far.
RECURSIVE VectorLoop(_, _, _, _)
VectorLoop(self, d, i, vec) ==
    IF i > Len(self.term_vector_words)
    THEN [vec |-> vec, err |-> "none"]
    ELSE LET term == self.term_vector_words[i] IN
         IF DictHas(d.terms, term)
         THEN IF ~DictHas(self.df_table, term)
              THEN [vec |-> vec, err |-> "KeyError"]
              ELSE LET df == DictGet(self.df_table, term)
                       e == IdfError(self.N, df)
                   IN IF e # "none"
                      THEN [vec |-> vec, err |-> e]
                      ELSE VectorLoop(self, d, i + 1,
                               Append(vec,
                                      Weight(DictGet(d.terms, term), self.N, df)))
         ELSE VectorLoop(self, d, i + 1, Append(vec, 0))

\* create_term_vector with math.log(self.N) taken once before the loop
\* (idf as log N - log df): it raises on an empty corpus.
create_term_vector_hoisted(self, d) ==
    IF self.N = 0
    THEN [d |-> [d EXCEPT !.term_vector = <<>>], err |-> "ValueError"]
    ELSE LET r == VectorLoop(self, d, 1, <<>>)
         IN [d |-> [d EXCEPT !.term_vector = r.vec], err |-> r.err]

\* create_term_vector keeping only the non-zero weights: a vocabulary word
\* the document lacks gets no entry.
create_term_vector_sparse(self, d) ==
    LET r == VectorLoop(self, d, 1, <<>>)
    IN [d |-> [d EXCEPT !.term_vector = SelectSeq(r.vec, LAMBDA x : x # 0)],
        err |-> r.err]

create_term_vector(self, d) ==
    LET r == VectorLoop(self, d, 1, <<>>)
    IN [d |-> [d EXCEPT !.term_vector = r.vec], err |-> r.err]

\* for doc in self.documents: self.create_term_vector(doc)
RECURSIVE VectorsFrom(_, _)
VectorsFrom(self, i) ==
    IF i > Len(self.documents)
    THEN [self |-> self, err |-> "none"]
    ELSE LET r == create_term_vector(self, self.documents[i])
             after == [self EXCEPT !.documents[i] = r.d]
         IN IF r.err # "none"
            THEN [self |-> after, err |-> r.err]
            ELSE VectorsFrom(after, i + 1)

create_term_vectors(self) == VectorsFrom(self, 1)

\* calculate_cosine_sim without the zero-magnitude guard
calculate_cosine_sim_unguarded(d1, d2) ==
    Divide(Dot(d1.term_vector, d2.term_vector),
           Sqrt(Dot(d1.term_vector, d1.term_vector))
             * Sqrt(Dot(d2.term_vector, d2.term_vector)))

calculate_cosine_sim(d1, d2) ==
    LET dot_product == Dot(d1.term_vector, d2.term_vector)
        magnitude_d1 == Sqrt(Dot(d1.term_vector, d1.term_vector))
        magnitude_d2 == Sqrt(Dot(d2.term_vector, d2.term_vector))
    IN IF magnitude_d1 = 0 \/ magnitude_d2 = 0
       THEN [val |-> 0, err |-> "none"]
       ELSE Divide(dot_product, magnitude_d1 * magnitude_d2)

\* results.sort(key=lambda x: x[0], reverse=True) without reverse=True
RECURSIVE InsertAsc(_, _, _)
InsertAsc(sorted, pair, i) ==
    IF i > Len(sorted) \/ sorted[i][1] > pair[1]
    THEN SubSeq(sorted, 1, i - 1) \o <<pair>> \o SubSeq(sorted, i, Len(sorted))
    ELSE InsertAsc(sorted, pair, i + 1)

RECURSIVE SortAscFrom(_, _, _)
SortAscFrom(results, i, sorted) ==
    IF i > Len(results)
    THEN sorted
    ELSE SortAscFrom(results, i + 1, InsertAsc(sorted, results[i], 1))

SortAsc(results) == SortAscFrom(results, 1, <<>>)

\* The place of pair in the sorted list: after every pair whose similarity
\* is at least its own (the sort is stable: equal keys keep their order).
RECURSIVE InsertDesc(_, _, _)
InsertDesc(sorted, pair, i) ==
    IF i > Len(sorted) \/ sorted[i][1] < pair[1]
    THEN SubSeq(sorted, 1, i - 1) \o <<pair>> \o SubSeq(sorted, i, Len(sorted))
    ELSE InsertDesc(sorted, pair, i + 1)

RECURSIVE SortDescFrom(_, _, _)
SortDescFrom(results, i, sorted) ==
    IF i > Len(results)
    THEN sorted
    ELSE SortDescFrom(results, i + 1, InsertDesc(sorted, results[i], 1))

\* results.sort(key=lambda x: x[0], reverse=True)
SortDesc(results) == SortDescFrom(results, 1, <<>>)

\* The loop of get_results with documents of similarity 0 left out of the
\* results.
RECURSIVE SimilaritiesPositive(_, _, _, _)
SimilaritiesPositive(self, query_doc, i, results) ==
    IF i > Len(self.documents)
    THEN [results |-> results, err |-> "none"]
    ELSE LET sim == calculate_cosine_sim(query_doc, self.documents[i]) IN
         IF sim.err # "none"
         THEN [results |-> results, err |-> sim.err]
         ELSE SimilaritiesPositive(self, query_doc, i + 1,
                  IF sim.val > 0
                  THEN Append(results, <<sim.val, i - 1>>)
                  ELSE results)

\* for idx, doc in enumerate(self.documents): results.append((similarity, idx))
\* from document i on (idx = i - 1).
RECURSIVE Similarities(_, _, _, _)
Similarities(self, query_doc, i, results) ==
    IF i > Len(self.documents)
    THEN [results |-> results, err |-> "none"]
    ELSE LET sim == calculate_cosine_sim(query_doc, self.documents[i]) IN
         IF sim.err # "none"
         THEN [results |-> results, err |-> sim.err]
         ELSE Similarities(self, query_doc, i + 1,
                           Append(results, <<sim.val, i - 1>>))

\* get_results that keeps the query document in self.documents
get_results_keeping_query(self, query) ==
    LET q == create_term_vector(self,
                 [text |-> query, terms |-> tokenize(query), term_vector |-> <<>>])
        sims == Similarities(self, q.d, 1, <<>>)
    IN [self |-> [self EXCEPT !.documents = Append(self.documents, q.d)],
        query_doc |-> q.d,
        ret |-> SortDesc(sims.results),
        err |-> IF q.err # "none" THEN q.err ELSE sims.err]

\* get_results: the engine after the call, the temporary query document,
\* the list returned and the exception raised.
get_results(self, query) ==
    LET q == create_term_vector(self,
                 [text |-> query, terms |-> tokenize(query), term_vector |-> <<>>])
    IN IF q.err # "none"
       THEN [self |-> self, query_doc |-> q.d, ret |-> <<>>, err |-> q.err]
       ELSE LET sims == Similarities(self, q.d, 1, <<>>) IN
            IF sims.err # "none"
            THEN [self |-> self, query_doc |-> q.d, ret |-> <<>>, err |-> sims.err]
            ELSE [self |-> self, query_doc |-> q.d,
                  ret |-> SortDesc(sims.results), err |-> "none"]

\* for i in range(5): print sim_scores[i][0] and the document
\* sim_scores[i][1]; printed is what was printed so far.
RECURSIVE PrintLoop(_, _, _, _)
PrintLoop(self, sim_scores, i, printed) ==
    IF i >= TopK
    THEN [printed |-> printed, err |-> "none"]
    ELSE IF i >= Len(sim_scores)
         THEN [printed |-> printed, err |-> "IndexError"]
         ELSE PrintLoop(self, sim_scores, i + 1,
                  Append(printed,
                         <<sim_scores[i + 1][1],
                           DocStr(self.documents[sim_scores[i + 1][2] + 1])>>))

\* One pass of the while loop of query_loop on the input line inp: EOFError
\* and KeyboardInterrupt leave the loop, any other exception leaves
\* query_loop uncaught.
query_loop(self, inp) ==
    IF inp.eof
    THEN [self |-> self, query_doc |-> NewDocument, ret |-> <<>>,
          printed |-> <<>>, err |-> "none"]
    ELSE LET r == get_results(self, inp.text) IN
         IF r.err # "none"
         THEN [self |-> r.self, query_doc |-> r.query_doc, ret |-> r.ret,
               printed |-> <<>>, err |-> r.err]
         ELSE LET p == PrintLoop(r.self, r.ret, 0, <<>>) IN
              [self |-> r.self, query_doc |-> r.query_doc, ret |-> r.ret,
               printed |-> p.printed, err |-> p.err]

\* ------------------------------------------------------------------ state
VARIABLES
    documents,          \* self.documents
    N,                  \* self.N
    df_table,           \* self.df_table
    term_vector_words,  \* self.term_vector_words
    query_doc,          \* the Document built last outside the corpus
    results,            \* what get_results returned last
    printed,            \* what the last pass of query_loop printed
    crashed,            \* the exception that ended the program, or "none"
    lastOp,             \* the method called last
    done,               \* the methods called so far
    vector_built,       \* whether some term vector has been built
    indexed,            \* whether create_term_vectors ran on the present corpus
    calls,              \* the number of method calls so far
    reads               \* the number of read_files calls so far

vars == <<documents, N, df_table, term_vector_words, query_doc, results,
          printed, crashed, lastOp, done, vector_built, indexed, calls, reads>>

Self ==
    [documents |-> documents, N |-> N, df_table |-> df_table,
     term_vector_words |-> term_vector_words]

SetSelf(self) ==
    /\ documents' = self.documents
    /\ N' = self.N
    /\ df_table' = self.df_table
    /\ term_vector_words' = self.term_vector_words

\* ----------------------------------------------------------------- inputs
Str_aB == <<"a", " ", "B">>
Str_aa == <<"a", ",", "a">>
Str_z == <<"z">>

\* The files a corpus directory may hold.
FileSet ==
    { [name |-> <<"1", ".", "t", "x", "t">>, text |-> Str_aB, readable |-> TRUE],
      [name |-> <<"2", ".", "t", "x", "t">>, text |-> Str_aa, readable |-> TRUE],
      [name |-> <<".", "h", ".", "t", "x", "t">>, text |-> Str_z, readable |-> TRUE],
      [name |-> <<"n", ".", "m", "d">>, text |-> Str_z, readable |-> TRUE],
      [name |-> <<"u", ".", "t", "x", "t">>, text |-> Str_z, readable |-> FALSE] }

\* Listings of at most MaxFiles distinct files, in any order.
Listings ==
    UNION { { fs \in [1..n -> FileSet] :
                \A i, j \in 1..n : i # j => fs[i] # fs[j] } : n \in 0..MaxFiles }

Directories ==
    { [exists |-> FALSE, files |-> <<>>] }
      \cup { [exists |-> TRUE, files |-> fs] : fs \in Listings }

Queries == { <<>>, <<"a">>, <<"B", " ", "a">>, <<",">>, <<"z">> }

InputLines ==
    { [eof |-> TRUE, text |-> <<>>] }
      \cup { [eof |-> FALSE, text |-> q] : q \in Queries }

Alphabet == {"a", "B", "7", "'", "-", ",", " "}

Texts == UNION { [1..n -> Alphabet] : n \in 0..MaxTextLen }

\* ---------------------------------------------------------------- actions
Init ==
    /\ documents = NewEngine.documents
    /\ N = NewEngine.N
    /\ df_table = NewEngine.df_table
    /\ term_vector_words = NewEngine.term_vector_words
    /\ query_doc = NewDocument
    /\ results = <<>>
    /\ printed = <<>>
    /\ crashed = "none"
    /\ lastOp = "init"
    /\ done = {}
    /\ vector_built = FALSE
    /\ indexed = FALSE
    /\ calls = 0
    /\ reads = 0

Called(op) ==
    /\ lastOp' = op
    /\ done' = done \cup {op}
    /\ calls' = calls + 1

CanCall == crashed = "none" /\ calls < MaxCalls

ReadFiles ==
    /\ CanCall
    /\ reads < MaxReads
    /\ \E dir \in Directories : SetSelf(read_files(Self, dir))
    /\ reads' = reads + 1
    /\ indexed' = FALSE
    /\ Called("read_files")
    /\ UNCHANGED <<query_doc, results, printed, crashed, vector_built>>

CreateDfTable ==
    /\ CanCall
    /\ SetSelf(create_df_table(Self))
    /\ indexed' = FALSE
    /\ Called("create_df_table")
    /\ UNCHANGED <<query_doc, results, printed, crashed, vector_built, reads>>

CreateTermVectors ==
    /\ CanCall
    /\ LET r == create_term_vectors(Self) IN
         /\ SetSelf(r.self)
         /\ crashed' = r.err
         /\ indexed' = (r.err = "none")
    /\ vector_built' = (vector_built \/ Len(documents) > 0)
    /\ Called("create_term_vectors")
    /\ UNCHANGED <<query_doc, results, printed, reads>>

GetResults ==
    /\ CanCall
    /\ \E query \in Queries :
         LET r == get_results(Self, query) IN
           /\ SetSelf(r.self)
           /\ query_doc' = r.query_doc
           /\ results' = r.ret
           /\ crashed' = r.err
    /\ vector_built' = TRUE
    /\ Called("get_results")
    /\ UNCHANGED <<printed, indexed, reads>>

QueryLoop ==
    /\ CanCall
    /\ \E inp \in InputLines :
         LET r == query_loop(Self, inp) IN
           /\ SetSelf(r.self)
           /\ query_doc' = IF inp.eof THEN query_doc ELSE r.query_doc
           /\ results' = IF inp.eof THEN results ELSE r.ret
           /\ printed' = r.printed
           /\ crashed' = r.err
           /\ vector_built' = (vector_built \/ ~inp.eof)
    /\ Called("query_loop")
    /\ UNCHANGED <<indexed, reads>>

Next ==
    \/ ReadFiles
    \/ CreateDfTable
    \/ CreateTermVectors
    \/ GetResults
    \/ QueryLoop

Spec == Init /\ [][Next]_vars

\* tokenize applied to every text of at most MaxTextLen characters:
\* doc = Document(); doc.text = text, then doc.terms = self.tokenize(text).
InitTokenize ==
    /\ documents = NewEngine.documents
    /\ N = NewEngine.N
    /\ df_table = NewEngine.df_table
    /\ term_vector_words = NewEngine.term_vector_words
    /\ \E text \in Texts : query_doc = [NewDocument EXCEPT !.text = text]
    /\ results = <<>>
    /\ printed = <<>>
    /\ crashed = "none"
    /\ lastOp = "init"
    /\ done = {}
    /\ vector_built = FALSE
    /\ indexed = FALSE
    /\ calls = 0
    /\ reads = 0

Tokenize ==
    /\ lastOp = "init"
    /\ query_doc' = [query_doc EXCEPT !.terms = tokenize(query_doc.text)]
    /\ Called("tokenize")
    /\ UNCHANGED <<documents, N, df_table, term_vector_words, results, printed,
                   crashed, vector_built, indexed, reads>>

NextTokenize == Tokenize

SpecTokenize == InitTokenize /\ [][NextTokenize]_vars

\* ----------------------------------------------------------------- claims
NonZero(vec) == \E i \in 1..Len(vec) : vec[i] # 0

\* C1: in every reachable state every vocabulary word t has
\* 1 <= df_table[t] <= N.  (Violated: a second create_df_table counts every
\* document again.)
C1_DfWithinN ==
    \A i \in 1..Len(term_vector_words) :
        LET t == term_vector_words[i] IN
          /\ DictHas(df_table, t)
          /\ 1 <= DictGet(df_table, t)
          /\ DictGet(df_table, t) <= N

\* C2: get_results returns without an exception exactly one pair per
\* document: len(result) == len(documents) == N and every index 0..N-1 is in
\* exactly one pair.
C2_OnePairPerDocument ==
    lastOp = "get_results" =>
        /\ crashed = "none"
        /\ Len(results) = Len(documents)
        /\ Len(documents) = N
        /\ \A idx \in 0..(N - 1) :
             Cardinality({i \in 1..Len(results) : results[i][2] = idx}) = 1

C2_Witness ==
    /\ lastOp = "get_results"
    /\ N >= 2
    /\ Len(results) = N
    /\ \E i \in 1..Len(results) : results[i][1] = 0

\* C3: the list get_results returns is sorted non-increasing by similarity.
C3_SortedDescending ==
    lastOp = "get_results" =>
        \A i, j \in 1..Len(results) : i < j => results[i][1] >= results[j][1]

\* The sort moved a later document in front of an earlier one.
C3_Witness ==
    /\ lastOp = "get_results"
    /\ Len(results) >= 2
    /\ results[1][1] > results[2][1]
    /\ results[1][2] > results[2][2]

\* C4: once create_term_vectors has run on the corpus, every document's
\* term_vector is as long as term_vector_words.
C4_VectorLength ==
    indexed =>
        \A i \in 1..Len(documents) :
            Len(documents[i].term_vector) = Len(term_vector_words)

C4_Witness ==
    /\ indexed
    /\ {"read_files", "create_df_table", "create_term_vectors"} \subseteq done
    /\ Len(documents) >= 2
    /\ Len(term_vector_words) >= 2
    /\ \E i \in 1..Len(documents) :
         /\ NonZero(documents[i].term_vector)
         /\ \E k \in 1..Len(documents[i].term_vector) :
              documents[i].term_vector[k] = 0

\* C5: when query_loop shows the top 5 results of a corpus of fewer than 5
\* documents, no unchecked out-of-range access into the result list happens.
\* (Violated: sim_scores[i] raises IndexError, which query_loop does not
\* catch.)
C5_TopKChecked ==
    (lastOp = "query_loop" /\ Len(documents) < TopK) => crashed # "IndexError"

\* C6: on an empty corpus create_df_table, create_term_vectors and
\* get_results raise nothing, df_table and the vocabulary are empty and
\* get_results returns the empty list.
C6_EmptyCorpus ==
    (documents = <<>>
       /\ lastOp \in {"create_df_table", "create_term_vectors", "get_results"}) =>
        /\ crashed = "none"
        /\ N = 0
        /\ df_table = <<>>
        /\ term_vector_words = <<>>
        /\ lastOp = "get_results" => results = <<>>

C6_Witness ==
    /\ documents = <<>>
    /\ lastOp = "get_results"
    /\ {"create_df_table", "create_term_vectors"} \subseteq done
    /\ query_doc.terms # <<>>
    /\ results = <<>>

\* C7: a query none of whose tokens is in the vocabulary gets an all-zero
\* vector and, without an exception, similarity 0 against every document,
\* by the zero-magnitude guard.
C7_OutOfVocabularyQuery ==
    (lastOp = "get_results"
       /\ \A i \in 1..Len(query_doc.terms) :
            query_doc.terms[i].k \notin Range(term_vector_words)) =>
        /\ crashed = "none"
        /\ Len(query_doc.term_vector) = Len(term_vector_words)
        /\ ~NonZero(query_doc.term_vector)
        /\ Sqrt(Dot(query_doc.term_vector, query_doc.term_vector)) = 0
        /\ Len(results) = Len(documents)
        /\ \A i \in 1..Len(results) : results[i][1] = 0

C7_Witness ==
    /\ lastOp = "get_results"
    /\ indexed
    /\ query_doc.terms # <<>>
    /\ \A i \in 1..Len(query_doc.terms) :
         query_doc.terms[i].k \notin Range(term_vector_words)
    /\ \E i \in 1..Len(documents) : NonZero(documents[i].term_vector)
    /\ Len(results) = Len(documents)

\* C8: a call of get_results leaves documents, N, df_table and
\* term_vector_words as they were.
C8_GetResultsFrame ==
    [][(lastOp' = "get_results" /\ calls' = calls + 1) =>
         UNCHANGED <<documents, N, df_table, term_vector_words>>]_vars

\* get_results wrote a non-zero vector into the query document of an
\* indexed corpus.
C8_Witness ==
    /\ lastOp = "get_results"
    /\ indexed
    /\ Len(documents) >= 2
    /\ NonZero(query_doc.term_vector)

\* The maximal runs of word characters of text, as <<first, last>>.
Runs(text) ==
    { r \in (1..Len(text)) \X (1..Len(text)) :
        /\ r[1] <= r[2]
        /\ \A k \in r[1]..r[2] : IsWordChar(text[k])
        /\ r[1] = 1 \/ ~IsWordChar(text[r[1] - 1])
        /\ r[2] = Len(text) \/ ~IsWordChar(text[r[2] + 1]) }

\* The positions of the non-whitespace characters that are no word characters.
Breakers(text) ==
    { i \in 1..Len(text) : ~IsWordChar(text[i]) /\ ~IsSpace(text[i]) }

\* How often the token is emitted for text.
Emissions(text, token) ==
    Cardinality({ r \in Runs(text) : Lower(SubSeq(text, r[1], r[2])) = token })
      + Cardinality({ i \in Breakers(text) : <<text[i]>> = token })

RECURSIVE SumCounts(_, _)
SumCounts(d, i) == IF i > Len(d) THEN 0 ELSE d[i].v + SumCounts(d, i + 1)

\* C9: tokenize counts exactly one emission per maximal run of word
\* characters (lower-cased) and one per non-whitespace non-word character,
\* and nothing else: no key is empty or holds whitespace, the counts sum to
\* runs + breaking characters, and empty text gives the empty mapping.
C9_TokenizeEmissions ==
    lastOp = "tokenize" =>
        LET text == query_doc.text
            d == query_doc.terms
        IN /\ \A i, j \in 1..Len(d) : i # j => d[i].k # d[j].k
           /\ \A i \in 1..Len(d) :
                /\ d[i].k # <<>>
                /\ \A c \in Range(d[i].k) : ~IsSpace(c)
                /\ d[i].v >= 1
                /\ d[i].v = Emissions(text, d[i].k)
           /\ \A r \in Runs(text) : DictHas(d, Lower(SubSeq(text, r[1], r[2])))
           /\ \A i \in Breakers(text) : DictHas(d, <<text[i]>>)
           /\ SumCounts(d, 1) = Cardinality(Runs(text)) + Cardinality(Breakers(text))
           /\ text = <<>> => d = <<>>

\* "B, a" gives {"b": 1, ",": 1, "a": 1}.
C9_Witness ==
    /\ lastOp = "tokenize"
    /\ query_doc.text = <<"B", ",", " ", "a">>
    /\ query_doc.terms = << [k |-> <<"b">>, v |-> 1],
                            [k |-> <<",">>, v |-> 1],
                            [k |-> <<"a">>, v |-> 1] >>

\* C10: once a term vector has been built, no later call changes
\* term_vector_words.  (Violated: create_df_table after get_results or
\* create_term_vectors rebuilds the vocabulary.)
C10_VocabularyFixed ==
    [][vector_built => term_vector_words' = term_vector_words]_vars

====
